---- MODULE Spec2Model ----
(***************************************************************************)
(* bitmap-to-gcode: the job pipeline (srv/server.go) and the AI result     *)
(* cache (ai_cache.go) as a state machine.                                 *)
(*                                                                         *)
(* Text (log lines, error messages, URLs, paths) is a sequence of tokens;  *)
(* concatenation is \o, so that "the credential occurs in this text" is a  *)
(* property of the value the code builds.  SHA-256 digests are modelled as *)
(* injective tags of their input.                                          *)
(***************************************************************************)
EXTENDS Integers, Sequences, FiniteSets, TLC

\* ---------------------------------------------------------------- bounds
\* Job objects a process lifetime can hold (the slots of the model).
MaxJobs == 2
\* Jobs submitted, one after the other, in a run of Spec and of SpecReq, which
\* follow a job through the whole pipeline.
MaxPipelineJobs == 1
\* time.Now().UnixNano() takes the values 0..MaxClock.
MaxClock == 1
\* Process restarts (srv.New runs again on the same data directory).
MaxRestarts == 1
\* Status/download requests served in one run of SpecReq.
MaxRequests == 1

Slots == 1..MaxJobs
\* Initializations of the cache cut short, by a crash or a failing statement.
MaxCrashes == 1
\* Bits of a floating-point significand (53 in float64), and the largest binary
\* exponent of an argument.
Precision == 3
MaxExp == 1
\* Elements of an SVG document handed to the background filter.
MaxElements == 3
Times == 0..MaxClock

\* ---------------------------------------------------------------- inputs
\* The credential a submission may carry: none, or the user's key.
Secret == "KEY-user-secret"
ApiKeys == {"", Secret}
\* Uploaded image contents.
Images == {"imgA"}
\* ai_cache.go:17
DefaultAIPrompt == "Reduce this image to a two color line-art image ..."
\* The aiPrompt form value: absent, or a custom text.
PromptInputs == {"", "custom prompt"}
\* Media types the transform service answers with.
MimeTypes == {"image/png"}
\* What the service answers with: a media type and one of the renderings it may
\* produce for the same image and prompt.
Answers(mimeTypes, renderings) ==
  {[mimeType |-> m, rendering |-> r] : m \in mimeTypes, r \in renderings}
\* One rendering per request, as PNG.
OneAnswer == Answers(MimeTypes, {""})
\* Two renderings, as PNG or JPEG.
TwoAnswers == Answers({"image/png", "image/jpeg"}, {"", " (another rendering)"})
\* What an external process may leave on (stdout, stderr): nothing, or both.
Captured == {<<"", "">>, <<"stdout text", "stderr text">>}
\* What a submission may carry: the AI flag, the credential, the prompt field.
Submissions ==
  {[useAI |-> u, apiKey |-> k, aiPrompt |-> ""] : u \in BOOLEAN, k \in ApiKeys}

NoJob == [ID |-> "none"]
NoRow == [output_filename |-> <<>>]
Nil == <<>>

\* ---------------------------------------------------------------- state
VARIABLES
  now,      \* the wall clock read by time.Now()
  restarts, \* restarts so far
  jobs,     \* Server.jobs: job id -> Job object (slot), 0 when absent
  job,      \* the Job objects
  proc,     \* processJob's goroutine per Job object: position and locals
  index,    \* table ai_image_cache: cache_key -> row
  blobs,    \* files of the cache directory: filename -> contents
  dirs,     \* files of the job directories: job id -> input, output.svg, ...
  mu,       \* Server.mu: "free" or its holder
  req,      \* the request handler goroutine (status/download)
  kept,     \* history: every successful Store since a blob file was last
            \*          deleted: its arguments, the filename it returned, its
            \*          number n in their order, and whether the key was fresh
  owed,     \* history: the Job objects whose AI stage started when a result
            \*          was kept for their (fingerprint, prompt), no blob file
            \*          having been deleted since
  db,       \* the index database file besides the rows of ai_image_cache: the
            \*          schema of that table, table ai_image_cache_old, and
            \*          NewAIImageCache's position
  call      \* a call of a pure function: its arguments and what it returned

vars == <<now, restarts, jobs, job, proc, index, blobs, dirs, mu, req, kept, owed, db, call>>

\* ---------------------------------------------------------------- text
Contains(text, tok) == \E i \in 1..Len(text) : text[i] = tok

\* fmt.Sprintf("%d", n)
Itoa(n) == ToString(n)

\* ---------------------------------------------------------------- cache keys
\* HashFile: hex SHA-256 of the file's contents.
HashFile(content) == <<"sha256:", content>>

\* inputHash[:16]
Prefix16(inputHash) == <<"sha256[:16]:", inputHash[2]>>

\* hashString: first 16 hex characters of SHA-256 of s.
hashString(s) == <<"sha256[:16]:", s>>

\* MakeCacheKey: inputHash + ":" + hashString(prompt).
MakeCacheKey(inputHash, prompt) == inputHash \o <<":">> \o hashString(prompt)

\* Store's extension switch.
StoreExt(mimeType) ==
  CASE mimeType = "image/jpeg" -> ".jpg"
    [] mimeType = "image/webp" -> ".webp"
    [] mimeType = "image/gif" -> ".gif"
    [] OTHER -> ".png"

\* filename := fmt.Sprintf("%s_%d%s", inputHash[:16], time.Now().UnixNano(), ext)
StoreFilename(inputHash, t, mimeType) ==
  Prefix16(inputHash) \o <<"_", Itoa(t), StoreExt(mimeType)>>

FullPath(filename) == <<"ai_cache/">> \o filename

BlobExists(filename) == filename \in DOMAIN blobs

\* A map with key k set to v, and with key k removed.
Put(m, k, v) == [x \in DOMAIN m \cup {k} |-> IF x = k THEN v ELSE m[x]]
Drop(m, k) == [x \in DOMAIN m \ {k} |-> m[x]]

\* ---------------------------------------------------------------- paths
IDs == {Itoa(t) : t \in Times}
JobDir(id) == <<"uploads/", id>>
UploadPath(id) == JobDir(id) \o <<"/input">>
SvgPath(id) == JobDir(id) \o <<"/output.svg">>
GCodePathOf(id) == JobDir(id) \o <<"/output.gcode">>
\* filepath.Join(jobDir, "ai_generated"+ext)
FallbackPath(id, mimeType) ==
  JobDir(id) \o <<"/ai_generated", IF mimeType = "image/jpeg" THEN ".jpg" ELSE ".png">>

\* ---------------------------------------------------------------- callGeminiAPI
\* url := fmt.Sprintf("https://...:generateContent?key=%s", apiKey)
GeminiURL(apiKey) ==
  <<"https://generativelanguage.googleapis.com/v1beta/models/gemini-2.0-flash-exp:generateContent?key=", apiKey>>

\* (*url.Error).Error(): Op + " " + quoted URL + ": " + cause. http.Client.Do
\* returns every failure as a *url.Error carrying the request URL.
UrlError(op, url, cause) == <<op, " \"">> \o url \o <<"\": ", cause>>

\* What the call can meet: the input file unreadable, the transport failing or
\* timing out (client.Do), the body unreadable, a non-200 answer with or without
\* a message, an unparsable body, a bad base64 payload, no image part, success.
ApiOutcomes ==
  {"readfile", "transport", "timeout", "readbody", "status_msg", "status_nomsg",
   "parse", "decode", "noimage", "ok"}

\* The error callGeminiAPI returns (Nil when err == nil).
GeminiError(apiKey, outcome) ==
  CASE outcome = "readfile" -> <<"read input image: ", "open: no such file or directory">>
    [] outcome = "transport" ->
         <<"API request failed: ">>
           \o UrlError("Post", GeminiURL(apiKey), "dial tcp: connection refused")
    [] outcome = "timeout" ->
         <<"API request failed: ">>
           \o UrlError("Post", GeminiURL(apiKey),
                       "context deadline exceeded (Client.Timeout exceeded while awaiting headers)")
    [] outcome = "readbody" -> <<"read response: ", "unexpected EOF">>
    [] outcome = "status_msg" -> <<"API error: ", "service message">>
    [] outcome = "status_nomsg" -> <<"API error (status ", "500", ")">>
    [] outcome = "parse" -> <<"parse response: ", "invalid character">>
    [] outcome = "decode" -> <<"decode image: ", "illegal base64 data">>
    [] outcome = "noimage" -> <<"no image in API response">>
    [] OTHER -> Nil

\* The image the service produced for an input and a prompt.
GeminiImage(content, prompt) == <<"line art of ", content, " by ", prompt>>

\* The same in one of the service's renderings.
Rendering(image, r) == IF r = "" THEN image ELSE image \o <<r>>

\* ---------------------------------------------------------------- Init
\* processJob's position and locals: its arguments, inputHash, the row Lookup
\* selected, cached (Lookup's result), the service's answer, Store's filename,
\* the image given to autotrace, the buffers and err of the last cmd.Run(); and
\* calls, the stages it has entered and the external calls that returned well.
NoProc ==
  [pc |-> "none", apiKey |-> "", aiPrompt |-> "", inputPath |-> Nil,
   inputHash |-> Nil, sel |-> NoRow, cached |-> Nil, imageData |-> Nil,
   mimeType |-> "", filename |-> Nil, traceArg |-> Nil, stdout |-> "",
   stderr |-> "", err |-> "", calls |-> <<>>]

NoFiles == [input |-> "none", ai |-> Nil, svg |-> "none", gcode |-> FALSE]

\* The request goroutine: its position, the route and id it serves, the *Job it
\* got from the map, the fields it has read, its answer, the requests so far.
IdleReq ==
  [pc |-> "idle", kind |-> "", id |-> "", slot |-> 0, status |-> "", path |-> Nil,
   resp |-> "", served |-> 0]

\* The state srv.New returns on a data directory whose cache holds `cache`: an
\* empty registry, no goroutine, the table ai_image_cache in the current schema.
\* No table, and a table of the given rows.
NoTable == [exists |-> FALSE, rows |-> <<>>]
Table(rows) == [exists |-> TRUE, rows |-> rows]

\* The database of a cache that NewAIImageCache has returned on the current
\* schema: ai_cache.go 61-64.
OpenDb ==
  [pc |-> "open", schema |-> "current", legacy |-> <<>>, old |-> NoTable,
   err |-> "", crashes |-> 0, cut |-> "", found |-> NoTable]

\* No pure function has been called.
NoCall == [fn |-> "", args |-> <<>>, ret |-> <<>>]

InitWith(cache) ==
  /\ db = OpenDb
  /\ call = NoCall
  /\ now = 0
  /\ restarts = 0
  /\ jobs = <<>>
  /\ job = [s \in Slots |-> NoJob]
  /\ proc = [s \in Slots |-> NoProc]
  /\ index = cache.index
  /\ blobs = cache.blobs
  /\ dirs = [id \in IDs |-> NoFiles]
  /\ mu = "free"
  /\ req = IdleReq
  /\ kept = {[fp |-> cache.index[k].input_hash, prompt |-> cache.index[k].prompt,
              filename |-> cache.index[k].output_filename,
              mime_type |-> cache.index[k].mime_type,
              data |-> cache.blobs[cache.index[k].output_filename],
              n |-> 0, fresh |-> TRUE] :
                k \in {x \in DOMAIN cache.index :
                         cache.index[x].output_filename \in DOMAIN cache.blobs}}
  /\ owed = {}

EmptyCache == [index |-> <<>>, blobs |-> <<>>]

\* What an earlier run of the server can have left for an image under the
\* default prompt: a row and its blob, or (the blob deleted since) the row alone.
EarlierFilename(c) == StoreFilename(HashFile(c), 0 - 1, "image/png")

Row(inputHash, prompt, filename, mimeType) ==
  [input_hash |-> inputHash, prompt |-> prompt, output_filename |-> filename,
   mime_type |-> mimeType]

EarlierIndex(c) ==
  Put(<<>>, MakeCacheKey(HashFile(c), DefaultAIPrompt),
      Row(HashFile(c), DefaultAIPrompt, EarlierFilename(c), "image/png"))

PersistedCaches ==
  {EmptyCache}
    \cup {[index |-> EarlierIndex(c),
           blobs |-> Put(<<>>, EarlierFilename(c), GeminiImage(c, DefaultAIPrompt))] : c \in Images}
    \cup {[index |-> EarlierIndex(c), blobs |-> <<>>] : c \in Images}

\* A server started on a data directory an earlier run may have used.
Init == \E cache \in PersistedCaches : InitWith(cache)

\* ---------------------------------------------------------------- history
\* A result stored for the pair is kept: its Store succeeded and no blob file
\* has been deleted since.
Kept(inputHash, prompt) ==
  \E r \in kept : r.fp = inputHash /\ r.prompt = prompt

\* kept once a blob file is deleted.
Unkept == {}

\* The latest of the kept Stores.
Latest == CHOOSE r \in kept : \A x \in kept : x.n <= r.n

\* The CachedResult Store returned for a kept record: ai_cache.go 243-248.
Returned(r) ==
  [Filename |-> r.filename, MimeType |-> r.mime_type,
   FullPath |-> <<"ai_cache/">> \o r.filename, Prompt |-> r.prompt]

\* Job object s when its AI stage starts on a pair with a kept result.
OwedAtStart(s, inputHash, prompt) ==
  IF Kept(inputHash, prompt) THEN {s} ELSE {}

\* owed once a blob file is deleted.
Unowed == {}

\* ---------------------------------------------------------------- HandleUpload
\* aiPrompt := r.FormValue("aiPrompt"); if aiPrompt == "" { aiPrompt = DefaultAIPrompt }
PromptOrDefault(p) == IF p = "" THEN DefaultAIPrompt ELSE p

\* The Job literal of HandleUpload.
NewJob(id, useAI) ==
  [ID |-> id, Status |-> "processing", Log |-> <<>>, GCodePath |-> Nil,
   UseAI |-> useAI, AIImageFilename |-> Nil, AIImageCached |-> FALSE]

\* One accepted submission: the job id is the clock reading, the upload is saved
\* as the job directory's input file, the Job is registered under the lock and
\* processJob is started with the credential and the prompt as arguments.
HandleUpload(limit, forms) ==
  \E s \in Slots, img \in Images, f \in forms :
    LET id == Itoa(now) IN
    /\ s <= limit
    /\ job[s] = NoJob
    /\ \A t \in Slots : t < s => job[t] # NoJob
    /\ mu = "free"
    /\ dirs' = [dirs EXCEPT ![id].input = img]
    /\ jobs' = Put(jobs, id, s)
    /\ job' = [job EXCEPT ![s] = NewJob(id, f.useAI)]
    /\ proc' = [proc EXCEPT ![s] =
                  [NoProc EXCEPT !.pc = "start", !.apiKey = f.apiKey,
                                 !.aiPrompt = PromptOrDefault(f.aiPrompt),
                                 !.inputPath = UploadPath(id)]]
    /\ UNCHANGED <<now, restarts, index, blobs, mu, req, kept, owed, db, call>>

\* Time passes.
Tick ==
  /\ now < MaxClock
  /\ now' = now + 1
  /\ UNCHANGED <<restarts, jobs, job, proc, index, blobs, dirs, mu, req, kept, owed, db, call>>

\* ---------------------------------------------------------------- processJob
\* Had the log been reset before each write.
LogToReset(j, lines) == [j EXCEPT !.Log = lines]

\* job.Log.WriteString(...)
LogTo(j, lines) == [j EXCEPT !.Log = @ \o lines]

\* Had a failing stage returned without setting the status.
FailNoStatus(j, lines) == LogTo(j, lines)

\* job.Status = "error"; return: the exit every failing stage takes.
Fail(j, lines) == [LogTo(j, lines) EXCEPT !.Status = "error"]

\* One step of the goroutine of Job object s: the Job's fields and the locals.
Step(s, j, p) ==
  /\ job' = [job EXCEPT ![s] = j]
  /\ proc' = [proc EXCEPT ![s] = p]

Called(p, what) == [p EXCEPT !.calls = Append(@, what)]

\* cmd.Run() has returned: the buffers, err, and the call noted when it went well.
Ran(p, cap, failed, what) ==
  [p EXCEPT !.stdout = cap[1], !.stderr = cap[2],
            !.err = IF failed THEN "exit status 1" ELSE "nil",
            !.calls = IF failed THEN @ ELSE Append(@, what)]

\* stdout/stderr of an external process, as processJob appends them.
ToolLog(out, errout) ==
  (IF out # "" THEN <<"stdout:\n", out, "\n">> ELSE <<>>)
    \o (IF errout # "" THEN <<"stderr:\n", errout, "\n">> ELSE <<>>)

\* if job.UseAI { ... HashFile(inputPath) ... }: server.go 195-205.
Start(s) ==
  LET j == job[s]
      p == proc[s]
      content == dirs[j.ID].input
  IN
  /\ p.pc = "start"
  /\ IF ~j.UseAI
       THEN Step(s, j, [p EXCEPT !.pc = "trace"]) /\ owed' = owed
       ELSE \E ok \in BOOLEAN :
              IF ok
                THEN /\ Step(s,
                             LogTo(j, <<"=== Running AI Image Transformation ===\n",
                                        "Input image hash: ">> \o Prefix16(HashFile(content)) \o <<"\n">>),
                             [p EXCEPT !.pc = "lookup", !.inputHash = HashFile(content)])
                     /\ owed' = owed \cup OwedAtStart(s, HashFile(content), p.aiPrompt)
                ELSE /\ Step(s,
                             Fail(j, <<"=== Running AI Image Transformation ===\n",
                                       "Error hashing input file: ", "read error", "\n">>),
                             [p EXCEPT !.pc = "done"])
                     /\ owed' = owed
  /\ UNCHANGED <<now, restarts, jobs, index, blobs, dirs, mu, req, kept, db, call>>

\* Had the credential not been checked for emptiness.
MissJobNoCheck(j, apiKey) == LogTo(j, <<"Cache MISS - calling Gemini API...\n">>)

\* The cache-miss branch up to the credential check: server.go 222-229.
MissJob(j, apiKey) ==
  IF apiKey = ""
    THEN Fail(j, <<"Cache MISS - calling Gemini API...\n",
                   "Error: AI transformation enabled but no API key provided\n">>)
    ELSE LogTo(j, <<"Cache MISS - calling Gemini API...\n">>)

\* Had the credential check not returned.
MissPcNoReturn(apiKey) == "api"

MissPc(apiKey) == IF apiKey = "" THEN "done" ELSE "api"

\* Lookup's SELECT (ai_cache.go 178-191) and, when it finds nothing or fails, the
\* caller's miss branch.
LookupSelect(s) ==
  LET j == job[s]
      p == proc[s]
      cacheKey == MakeCacheKey(p.inputHash, p.aiPrompt)
  IN
  /\ p.pc = "lookup"
  /\ \E dberr \in BOOLEAN :
       IF dberr
         THEN Step(s,
                   MissJob(LogTo(j, <<"Cache lookup error: ", "database is locked", "\n">>), p.apiKey),
                   [p EXCEPT !.pc = MissPc(p.apiKey)])
         ELSE IF cacheKey \notin DOMAIN index
           THEN Step(s, MissJob(j, p.apiKey), [p EXCEPT !.pc = MissPc(p.apiKey)])
           ELSE Step(s, j, [p EXCEPT !.pc = "stat", !.sel = index[cacheKey]])
  /\ UNCHANGED <<now, restarts, jobs, index, blobs, dirs, mu, req, kept, owed, db, call>>

\* Had Lookup returned the filename as the full path.
CachedResultNoDir(row) ==
  [Filename |-> row.output_filename, MimeType |-> row.mime_type,
   FullPath |-> row.output_filename, Prompt |-> row.prompt]

\* The CachedResult Lookup builds from a row: ai_cache.go 201-206.
CachedResult(row) ==
  [Filename |-> row.output_filename, MimeType |-> row.mime_type,
   FullPath |-> FullPath(row.output_filename), Prompt |-> row.prompt]

\* Had the AI image not replaced the upload as the pipeline's input.
WorkingImageKept(inputPath, aiImagePath) == inputPath

\* inputPath = aiImagePath: server.go 262-263.
WorkingImage(inputPath, aiImagePath) == aiImagePath

\* The cache-hit branch: server.go 216-220, 260.
HitJob(j, filename) ==
  [LogTo(j, <<"Cache HIT - using cached result: ">> \o filename \o <<"\n", "\n">>)
     EXCEPT !.AIImageFilename = filename, !.AIImageCached = TRUE]

\* Had the purge deleted without its WHERE clause.
PurgeAll(rows, cacheKey) == <<>>

\* DELETE FROM ai_image_cache WHERE cache_key = ?: ai_cache.go 197.
Purge(rows, cacheKey) == Drop(rows, cacheKey)

\* Lookup's os.Stat of the blob (ai_cache.go 193-206): for a missing file it
\* runs the purge of the key's row, whose result it ignores, and reports absent;
\* otherwise the caller has a hit.
LookupStat(s) ==
  LET j == job[s]
      p == proc[s]
      cacheKey == MakeCacheKey(p.inputHash, p.aiPrompt)
      filename == p.sel.output_filename
  IN
  /\ p.pc = "stat"
  /\ IF BlobExists(filename)
       THEN /\ Step(s, HitJob(j, CachedResult(p.sel).Filename),
                    [p EXCEPT !.pc = "trace", !.cached = CachedResult(p.sel),
                              !.inputPath = WorkingImage(@, CachedResult(p.sel).FullPath)])
            /\ index' = index
       ELSE /\ Step(s, MissJob(j, p.apiKey), [p EXCEPT !.pc = MissPc(p.apiKey)])
            /\ \E deleted \in BOOLEAN :
                 index' = IF deleted THEN Purge(index, cacheKey) ELSE index
  /\ UNCHANGED <<now, restarts, jobs, blobs, dirs, mu, req, kept, owed, db, call>>

\* s.callGeminiAPI(inputPath, apiKey, aiPrompt) is entered: server.go 231.
ApiCall(s) ==
  /\ proc[s].pc = "api"
  /\ Step(s, job[s], Called([proc[s] EXCEPT !.pc = "apiwait"], "api"))
  /\ UNCHANGED <<now, restarts, jobs, index, blobs, dirs, mu, req, kept, owed, db, call>>

\* callGeminiAPI returns: server.go 231-236.
ApiRet(s, outcomes, answers) ==
  LET j == job[s]
      p == proc[s]
  IN
  /\ p.pc = "apiwait"
  /\ \E outcome \in outcomes :
       IF outcome # "ok"
         THEN Step(s,
                   Fail(j, <<"AI transformation error: ">> \o GeminiError(p.apiKey, outcome) \o <<"\n">>),
                   [p EXCEPT !.pc = "done"])
         ELSE \E a \in answers :
                Step(s, j,
                     Called([p EXCEPT !.pc = "store", !.mimeType = a.mimeType,
                                      !.imageData = Rendering(GeminiImage(dirs[j.ID].input, p.aiPrompt),
                                                              a.rendering)],
                            "api returned"))
  /\ UNCHANGED <<now, restarts, jobs, index, blobs, dirs, mu, req, kept, owed, db, call>>

\* Had Store left the file it wrote when the index write failed.
CleanupNone(files, filename) == files

\* os.Remove(fullPath): ai_cache.go 239.
Cleanup(files, filename) == Drop(files, filename)

\* Had a failed Store ended the job.
StoreFailJobFatal(j, err) == Fail(j, <<"Warning: failed to cache result: ">> \o err \o <<"\n">>)

\* Store returned an error: a warning, and the job goes on (server.go 240-242).
StoreFailJob(j, err) == LogTo(j, <<"Warning: failed to cache result: ">> \o err \o <<"\n">>)

\* Store up to os.WriteFile (ai_cache.go 211-231).
StoreWrite(s) ==
  LET j == job[s]
      p == proc[s]
      filename == StoreFilename(p.inputHash, now, p.mimeType)
  IN
  /\ p.pc = "store"
  /\ \E ok \in BOOLEAN :
       IF ok
         THEN /\ blobs' = Put(blobs, filename, p.imageData)
              /\ Step(s, j, [p EXCEPT !.pc = "insert", !.filename = filename])
         ELSE /\ blobs' = blobs
              /\ Step(s,
                      StoreFailJob(j, <<"write cache file: ", "no space left on device">>),
                      [p EXCEPT !.pc = "fallback"])
  /\ UNCHANGED <<now, restarts, jobs, index, dirs, mu, req, kept, owed, db, call>>

\* Store's INSERT OR REPLACE (ai_cache.go 233-248) and the caller's use of the
\* result (server.go 253-257); on failure Store removes the file it wrote.
StoreInsert(s) ==
  LET j == job[s]
      p == proc[s]
      cacheKey == MakeCacheKey(p.inputHash, p.aiPrompt)
  IN
  /\ p.pc = "insert"
  /\ \E ok \in BOOLEAN :
       IF ok
         THEN /\ index' = Put(index, cacheKey, Row(p.inputHash, p.aiPrompt, p.filename, p.mimeType))
              /\ blobs' = blobs
              /\ kept' = IF BlobExists(p.filename)
                           THEN kept \cup {[fp |-> p.inputHash, prompt |-> p.aiPrompt,
                                             filename |-> p.filename,
                                             mime_type |-> p.mimeType,
                                             data |-> p.imageData,
                                             n |-> Cardinality(kept) + 1,
                                             fresh |-> cacheKey \notin DOMAIN index]}
                           ELSE kept
              /\ Step(s,
                      [LogTo(j, <<"AI transformation complete, saved as: ">> \o p.filename \o <<"\n", "\n">>)
                         EXCEPT !.AIImageFilename = p.filename],
                      [p EXCEPT !.pc = "trace", !.inputPath = WorkingImage(@, FullPath(p.filename))])
              /\ owed' = owed
         ELSE /\ index' = index
              /\ blobs' = Cleanup(blobs, p.filename)
              /\ kept' = Unkept
              /\ owed' = Unowed
              /\ Step(s,
                      StoreFailJob(j, <<"insert cache record: ", "database is locked">>),
                      [p EXCEPT !.pc = "fallback"])
  /\ UNCHANGED <<now, restarts, jobs, dirs, mu, req, db, call>>

\* The direct write into the job directory after a failed Store: server.go 243-252, 257.
Fallback(s) ==
  LET j == job[s]
      p == proc[s]
      aiImagePath == FallbackPath(j.ID, p.mimeType)
  IN
  /\ p.pc = "fallback"
  /\ \E ok \in BOOLEAN :
       IF ok
         THEN /\ dirs' = [dirs EXCEPT ![j.ID].ai = p.imageData]
              /\ Step(s,
                      LogTo(j, <<"AI transformation complete, saved as: ", aiImagePath[3], aiImagePath[4], "\n", "\n">>),
                      [p EXCEPT !.pc = "trace", !.inputPath = WorkingImage(@, aiImagePath)])
         ELSE /\ dirs' = dirs
              /\ Step(s, Fail(j, <<"Error saving AI image: ", "no space left on device", "\n">>),
                      [p EXCEPT !.pc = "done"])
  /\ UNCHANGED <<now, restarts, jobs, index, blobs, mu, req, kept, owed, db, call>>

\* Had the error branch set the status and not returned.
AfterTraceNoReturn(failed) == "filter"

\* Had a failed tracer been launched again.
AfterTraceRetry(failed) == IF failed THEN "trace" ELSE "filter"

\* Where processJob goes after the tracer returned: server.go 287-292.
AfterTrace(failed) == IF failed THEN "done" ELSE "filter"

\* autotrace is launched on the working image: server.go 267-275.
TraceCall(s) ==
  LET j == job[s]
      p == proc[s]
  IN
  /\ p.pc = "trace"
  /\ Step(s,
          LogTo(j, <<"=== Running autotrace ===\n",
                     "Command: autotrace -centerline -color-count 2 -output-file ">>
                    \o SvgPath(j.ID) \o <<" ">> \o p.inputPath \o <<"\n\n">>),
          Called([p EXCEPT !.pc = "tracewait", !.traceArg = p.inputPath], "trace"))
  /\ UNCHANGED <<now, restarts, jobs, index, blobs, dirs, mu, req, kept, owed, db, call>>

\* cmd.Run() of autotrace returns; a launch failure is a failure with nothing
\* captured: server.go 275-292.
TraceRet(s) ==
  LET j == job[s]
      p == proc[s]
  IN
  /\ p.pc = "tracewait"
  /\ \E cap \in Captured, failed \in BOOLEAN :
       /\ Step(s,
               IF failed
                 THEN Fail(LogTo(j, ToolLog(cap[1], cap[2])), <<"\nError: ", "exit status 1", "\n">>)
                 ELSE LogTo(j, ToolLog(cap[1], cap[2]) \o <<"autotrace completed successfully\n\n">>),
               Ran([p EXCEPT !.pc = AfterTrace(failed)], cap, failed, "trace returned"))
       /\ dirs' = IF failed THEN dirs ELSE [dirs EXCEPT ![j.ID].svg = "unfiltered"]
  /\ UNCHANGED <<now, restarts, jobs, index, blobs, mu, req, kept, owed, db, call>>

\* filterWhitePaths: the read fails, or the rewrite succeeds, or os.WriteFile
\* fails opening the file, or it fails after truncating it.
FilterOutcomes == {"ok", "read failed", "open failed", "write failed"}

\* output.svg after filterWhitePaths: server.go 478-502.
FilterDoc(doc, outcome) ==
  CASE outcome = "ok" -> "filtered"
    [] outcome = "write failed" -> "partial"
    [] OTHER -> doc

\* The filter stage: server.go 294-300.
Filter(s) ==
  LET j == job[s]
      p == proc[s]
      doc == dirs[j.ID].svg
  IN
  /\ p.pc = "filter"
  /\ \E outcome \in FilterOutcomes :
       /\ outcome # "read failed" => doc # "none"
       /\ dirs' = [dirs EXCEPT ![j.ID].svg = FilterDoc(doc, outcome)]
       /\ Step(s,
               LogTo(j, <<"=== Filtering white paths from SVG ===\n">>
                        \o IF outcome = "ok"
                             THEN <<"White paths removed\n\n">>
                             ELSE <<"Warning: failed to filter white paths: ", "error text", "\n">>),
               Called([p EXCEPT !.pc = "scale"], "filter"))
  /\ UNCHANGED <<now, restarts, jobs, index, blobs, mu, req, kept, owed, db, call>>

\* The scale stage and the launch of svg2gcode: server.go 302-331.
GenCall(s) ==
  LET j == job[s]
      p == proc[s]
  IN
  /\ p.pc = "scale"
  /\ Step(s,
          LogTo(j, <<"SVG dimensions: ", "Max output dimensions: ",
                     "Target output dimensions: ", "Calculated DPI: ",
                     "=== Running svg2gcode ===\n", "Command: svg2gcode ">>
                    \o SvgPath(j.ID) \o <<" -o ">> \o GCodePathOf(j.ID) \o <<"\n\n">>),
          Called(Called([p EXCEPT !.pc = "genwait"], "scale"), "gen"))
  /\ UNCHANGED <<now, restarts, jobs, index, blobs, dirs, mu, req, kept, owed, db, call>>

\* Had the generator's error branch set the status and not returned.
AfterGenNoReturn(failed) == "setpath"

\* Where processJob goes after the generator returned: server.go 340-348.
AfterGen(failed) == IF failed THEN "done" ELSE "setpath"

\* cmd.Run() of svg2gcode returns: server.go 331-348.
GenRet(s) ==
  LET j == job[s]
      p == proc[s]
  IN
  /\ p.pc = "genwait"
  /\ \E cap \in Captured, failed \in BOOLEAN :
       /\ Step(s,
               IF failed
                 THEN Fail(LogTo(j, ToolLog(cap[1], cap[2])), <<"\nError: ", "exit status 1", "\n">>)
                 ELSE LogTo(j, ToolLog(cap[1], cap[2]) \o <<"svg2gcode completed successfully\n">>),
               Ran([p EXCEPT !.pc = AfterGen(failed)], cap, failed, "gen returned"))
       /\ dirs' = IF failed THEN dirs ELSE [dirs EXCEPT ![j.ID].gcode = TRUE]
  /\ UNCHANGED <<now, restarts, jobs, index, blobs, mu, req, kept, owed, db, call>>

\* job.GCodePath = gcodePath: server.go 350.
SetPath(s) ==
  /\ proc[s].pc = "setpath"
  /\ Step(s, [job[s] EXCEPT !.GCodePath = GCodePathOf(job[s].ID)],
          [proc[s] EXCEPT !.pc = "setstatus"])
  /\ UNCHANGED <<now, restarts, jobs, index, blobs, dirs, mu, req, kept, owed, db, call>>

\* job.Status = "done": server.go 351.
SetStatus(s) ==
  /\ proc[s].pc = "setstatus"
  /\ Step(s, [job[s] EXCEPT !.Status = "done"], [proc[s] EXCEPT !.pc = "done"])
  /\ UNCHANGED <<now, restarts, jobs, index, blobs, dirs, mu, req, kept, owed, db, call>>

\* One step of some job's goroutine.
ProcessJob ==
  \E s \in Slots :
    \/ Start(s)
    \/ LookupSelect(s)
    \/ LookupStat(s)
    \/ ApiCall(s)
    \/ ApiRet(s, ApiOutcomes, OneAnswer)
    \/ StoreWrite(s)
    \/ StoreInsert(s)
    \/ Fallback(s)
    \/ TraceCall(s)
    \/ TraceRet(s)
    \/ Filter(s)
    \/ GenCall(s)
    \/ GenRet(s)
    \/ SetPath(s)
    \/ SetStatus(s)

\* ---------------------------------------------------------------- restart
\* The process stops and srv.New runs again: the registry and every goroutine
\* are gone, the index and the files stay. NewAIImageCache finds the table
\* (CREATE TABLE IF NOT EXISTS) and migrateOldSchema finds nothing to migrate.
Restart ==
  /\ restarts < MaxRestarts
  /\ restarts' = restarts + 1
  /\ jobs' = <<>>
  /\ job' = [s \in Slots |-> NoJob]
  /\ proc' = [s \in Slots |-> NoProc]
  /\ mu' = "free"
  /\ req' = IdleReq
  /\ owed' = {}
  /\ UNCHANGED <<now, index, blobs, dirs, kept, db, call>>

\* ---------------------------------------------------------------- the cache directory
\* A file of the cache directory is deleted by something other than the server:
\* the case Lookup's os.Stat is there for (ai_cache.go 193-199).
DeleteBlob ==
  \E f \in DOMAIN blobs :
    /\ blobs' = Drop(blobs, f)
    /\ kept' = Unkept
    /\ owed' = Unowed
    /\ UNCHANGED <<now, restarts, jobs, job, proc, index, dirs, mu, req, db, call>>

\* ---------------------------------------------------------------- requests
\* HandleJobStatus / HandleDownload take the lock: server.go 357, 398.
ReqLock ==
  /\ req.pc = "idle"
  /\ req.served < MaxRequests
  /\ mu = "free"
  /\ mu' = "request"
  /\ \E kind \in {"status", "download"}, id \in IDs :
       req' = [IdleReq EXCEPT !.pc = "locked", !.kind = kind, !.id = id,
                              !.served = req.served]
  /\ UNCHANGED <<now, restarts, jobs, job, proc, index, blobs, dirs, kept, owed, db, call>>

\* job, exists := s.jobs[jobID]; s.mu.Unlock(); if !exists { 404 }: server.go
\* 358-364, 399-405.
ReqLookup ==
  /\ req.pc = "locked"
  /\ mu' = "free"
  /\ req' = IF req.id \in DOMAIN jobs
              THEN [req EXCEPT !.pc = "read status", !.slot = jobs[req.id]]
              ELSE [req EXCEPT !.pc = "idle", !.resp = "404", !.served = @ + 1]
  /\ UNCHANGED <<now, restarts, jobs, job, proc, index, blobs, dirs, kept, owed, db, call>>

\* What an unsynchronised read of a field may return: the value the field has,
\* or the value it had when the job was registered under the lock (the writes
\* of processJob are ordered after nothing the reader does).
RacyRead(current, registered) == {current, registered}

\* Had HandleDownload not looked at the status.
NotAvailableNever(kind, st) == FALSE

\* job.Status != "done" in HandleDownload: server.go 402.
NotAvailable(kind, st) == kind = "download" /\ st # "done"

\* The read of job.Status, after the lock is released: server.go 370, 402.
ReqReadStatus ==
  /\ req.pc = "read status"
  /\ \E st \in RacyRead(job[req.slot].Status, "processing") :
       req' = IF NotAvailable(req.kind, st)
                THEN [req EXCEPT !.pc = "idle", !.status = st, !.resp = "404", !.served = @ + 1]
                ELSE [req EXCEPT !.pc = "read rest", !.status = st]
  /\ UNCHANGED <<now, restarts, jobs, job, proc, index, blobs, dirs, mu, kept, owed, db, call>>

\* The remaining reads: job.GCodePath for a download (server.go 402, 413), the
\* fields the status page shows (server.go 379-389).
ReqReadRest ==
  /\ req.pc = "read rest"
  /\ \E path \in RacyRead(job[req.slot].GCodePath, Nil) :
       req' = [req EXCEPT !.pc = "idle", !.path = path, !.served = @ + 1,
                          !.resp = IF req.kind = "status" THEN "page"
                                   ELSE IF path = Nil THEN "404" ELSE "file"]
  /\ UNCHANGED <<now, restarts, jobs, job, proc, index, blobs, dirs, mu, kept, owed, db, call>>

Request == ReqLock \/ ReqLookup \/ ReqReadStatus \/ ReqReadRest

\* ---------------------------------------------------------------- specifications
\* No goroutine of processJob is running.
Quiescent == \A s \in Slots : proc[s].pc \in {"none", "done"}

\* A job followed from its submission through the whole pipeline, against every
\* outcome of its collaborators; the next job is submitted when it has ended.
\* (Jobs share the cache and nothing else: SpecAI runs them concurrently on it.)
Next ==
  \/ Quiescent /\ HandleUpload(MaxPipelineJobs, Submissions)
  \/ ProcessJob
  \/ Tick

Spec == Init /\ [][Next]_vars

\* The same when every goroutine of processJob keeps being scheduled and every
\* external call it makes (transform service, tracer, generator) returns.
SpecLive == Spec /\ WF_vars(ProcessJob)

\* The same, with status and download requests arriving at any moment.
NextReq == Next \/ Request

SpecReq == Init /\ [][NextReq]_vars

\* AI-enabled submissions with a credential, with the default or a custom prompt.
AISubmissions ==
  {[useAI |-> TRUE, apiKey |-> Secret, aiPrompt |-> p] : p \in PromptInputs}

\* The service fails or answers with an image.
AIOutcomes == {"transport", "ok"}

\* The AI stage of processJob, up to the launch of the tracer.
AIStage ==
  \E s \in Slots :
    \/ Start(s)
    \/ LookupSelect(s)
    \/ LookupStat(s)
    \/ ApiCall(s)
    \/ ApiRet(s, AIOutcomes, OneAnswer)
    \/ StoreWrite(s)
    \/ StoreInsert(s)
    \/ Fallback(s)

\* AI-enabled jobs running concurrently on the one cache, followed through their
\* AI stage, while the clock advances, blob files are deleted from outside and
\* the server is restarted on the same data directory.
NextAI ==
  \/ HandleUpload(MaxJobs, AISubmissions)
  \/ AIStage
  \/ Tick
  \/ Restart
  \/ DeleteBlob

SpecAI == Init /\ [][NextAI]_vars

\* A data directory in which every row's blob file is there.
Intact(cache) ==
  \A k \in DOMAIN cache.index : cache.index[k].output_filename \in DOMAIN cache.blobs

InitIntact == \E cache \in {c \in PersistedCaches : Intact(c)} : InitWith(cache)

\* The same jobs on a cache directory nothing but the server touches: no blob
\* file is deleted from outside, before the server started or after.
NextIntact ==
  \/ HandleUpload(MaxJobs, AISubmissions)
  \/ AIStage
  \/ Tick
  \/ Restart

SpecIntact == InitIntact /\ [][NextIntact]_vars

\* No Lookup or Store call is in progress.
CacheIdle == \A s \in Slots : proc[s].pc \in {"none", "done", "trace"}

\* The AI stage against a service that answers in several media types and
\* renderings.
CacheCalls ==
  \E s \in Slots :
    \/ Start(s)
    \/ LookupSelect(s)
    \/ LookupStat(s)
    \/ ApiCall(s)
    \/ ApiRet(s, AIOutcomes, TwoAnswers)
    \/ StoreWrite(s)
    \/ StoreInsert(s)
    \/ Fallback(s)

\* The cache called by one job after another, in one process lifetime and the
\* next: each job's Lookup and Store run to their end before the next job is
\* submitted, while the clock advances (or does not), blob files are deleted
\* from outside and the server is restarted.
NextSeq ==
  \/ CacheIdle /\ HandleUpload(MaxPipelineJobs, AISubmissions)
  \/ CacheCalls
  \/ Tick
  \/ Restart
  \/ DeleteBlob

SpecSeq == Init /\ [][NextSeq]_vars

\* ---------------------------------------------------------------- NewAIImageCache
\* Images an older version of the server has cached results for.
LegacyImages == {"imgA", "imgB", "imgC"}

\* A row of the legacy table, whose primary key is input_hash and which has no
\* prompt column: the columns the migration reads (ai_cache.go 109-115).
LegacyRow(c, mimeType) ==
  [input_hash |-> HashFile(c),
   output_filename |-> StoreFilename(HashFile(c), 0 - 1, mimeType),
   mime_type |-> mimeType]

\* The legacy tables: for each image no row or one row, of a PNG or a JPEG.
LegacyTables ==
  UNION {[{HashFile(c) : c \in cs} ->
            {LegacyRow(c, m) : c \in cs, m \in {"image/png", "image/jpeg"}}] :
           cs \in SUBSET LegacyImages}

WellKeyed(rows) == \A h \in DOMAIN rows : rows[h].input_hash = h

\* The database file NewAIImageCache may find: none yet, one on the legacy
\* schema, or one on the current schema.
Databases ==
  {[schema |-> "none", legacy |-> <<>>, index |-> <<>>]}
    \cup {[schema |-> "legacy", legacy |-> rows, index |-> <<>>] :
            rows \in {t \in LegacyTables : WellKeyed(t)}}
    \cup {[schema |-> "current", legacy |-> <<>>, index |-> EarlierIndex(c)] : c \in Images}

\* The process is about to call NewAIImageCache on a database file.
InitMig ==
  \E d \in Databases :
    /\ now = 0
    /\ restarts = 0
    /\ jobs = <<>>
    /\ job = [s \in Slots |-> NoJob]
    /\ proc = [s \in Slots |-> NoProc]
    /\ index = d.index
    /\ blobs = <<>>
    /\ dirs = [id \in IDs |-> NoFiles]
    /\ mu = "free"
    /\ req = IdleReq
    /\ kept = {}
    /\ owed = {}
    /\ call = NoCall
    /\ db = [pc |-> "closed", schema |-> d.schema, legacy |-> d.legacy,
             old |-> NoTable, err |-> "", crashes |-> 0, cut |-> "",
             found |-> IF d.schema = "legacy" THEN Table(d.legacy) ELSE NoTable]

\* NewAIImageCache returns an error, and the process ends.
InitFails(msg) == [db EXCEPT !.pc = "closed", !.err = msg, !.crashes = @ + 1]

\* The outcomes of a statement that can succeed when `feasible`.
Outcomes(feasible) ==
  {ok \in BOOLEAN : (ok => feasible) /\ (~ok => (~feasible \/ db.crashes < MaxCrashes))}

\* NewAIImageCache up to sql.Open: ai_cache.go 29-37.
OpenCache ==
  /\ db.pc = "closed"
  /\ db' = [db EXCEPT !.pc = "create", !.err = ""]
  /\ UNCHANGED <<now, restarts, jobs, job, proc, index, blobs, dirs, mu, req, kept, owed, call>>

\* CREATE TABLE IF NOT EXISTS ai_image_cache: ai_cache.go 39-53.
CreateTable ==
  /\ db.pc = "create"
  /\ \E ok \in Outcomes(TRUE) :
       IF ok
         THEN /\ db' = [db EXCEPT !.pc = "check",
                                  !.schema = IF @ = "none" THEN "current" ELSE @]
              /\ index' = index
         ELSE /\ db' = InitFails("create table")
              /\ index' = index
  /\ UNCHANGED <<now, restarts, jobs, job, proc, blobs, dirs, mu, req, kept, owed, call>>

\* SELECT COUNT(*) FROM pragma_table_info('ai_image_cache') WHERE name =
\* 'input_hash' AND pk = 1: ai_cache.go 71-74.
LegacyCount(schema) == IF schema = "legacy" THEN 1 ELSE 0

\* Had the check taken every table for a legacy one.
NextAfterCheckAlways(count) == "rename"

\* count == 0 returns nil: ai_cache.go 79-82.
NextAfterCheck(count) == IF count = 0 THEN "open" ELSE "rename"

\* migrateOldSchema's check of the schema: ai_cache.go 68-82, and 56-64 when no
\* migration is needed.
CheckSchema ==
  /\ db.pc = "check"
  /\ \E ok \in Outcomes(TRUE) :
       IF ok
         THEN db' = [db EXCEPT !.pc = NextAfterCheck(LegacyCount(db.schema))]
         ELSE db' = InitFails("migrate schema")
  /\ UNCHANGED <<now, restarts, jobs, job, proc, index, blobs, dirs, mu, req, kept, owed, call>>

\* 1. ALTER TABLE ai_image_cache RENAME TO ai_image_cache_old: ai_cache.go 85-89.
RenameOld ==
  /\ db.pc = "rename"
  /\ \E ok \in Outcomes(db.schema # "none" /\ ~db.old.exists) :
       IF ok
         THEN db' = [db EXCEPT !.pc = "new", !.schema = "none", !.legacy = <<>>,
                               !.old = Table(db.legacy)]
         ELSE db' = InitFails("rename old table")
  /\ UNCHANGED <<now, restarts, jobs, job, proc, index, blobs, dirs, mu, req, kept, owed, call>>

\* 2. CREATE TABLE ai_image_cache: ai_cache.go 91-104.
CreateNew ==
  /\ db.pc = "new"
  /\ \E ok \in Outcomes(db.schema = "none") :
       IF ok
         THEN /\ db' = [db EXCEPT !.pc = "copy", !.schema = "current"]
              /\ index' = <<>>
         ELSE /\ db' = InitFails("create new table")
              /\ index' = index
  /\ UNCHANGED <<now, restarts, jobs, job, proc, blobs, dirs, mu, req, kept, owed, call>>

\* Had the copy kept the legacy key.
CopyKeyLegacy(input_hash) == input_hash

\* input_hash || ':' || ? with hashString(DefaultAIPrompt): ai_cache.go 110, 116.
CopyKey(input_hash) == input_hash \o <<":">> \o hashString(DefaultAIPrompt)

\* The rows the INSERT ... SELECT makes of the rows of ai_image_cache_old:
\* ai_cache.go 107-116.
Copied(rows) ==
  [k \in {CopyKey(h) : h \in DOMAIN rows} |->
     LET h == CHOOSE x \in DOMAIN rows : CopyKey(x) = k IN
     Row(rows[h].input_hash, DefaultAIPrompt, rows[h].output_filename, rows[h].mime_type)]

\* 3. INSERT INTO ai_image_cache ... SELECT ... FROM ai_image_cache_old:
\* ai_cache.go 106-120.
CopyRows ==
  /\ db.pc = "copy"
  /\ \E ok \in Outcomes(/\ db.schema = "current"
                        /\ db.old.exists
                        /\ DOMAIN Copied(db.old.rows) \cap DOMAIN index = {}
                        /\ Cardinality(DOMAIN Copied(db.old.rows)) = Cardinality(DOMAIN db.old.rows)) :
       IF ok
         THEN /\ db' = [db EXCEPT !.pc = "drop"]
              /\ index' = [k \in DOMAIN index \cup DOMAIN Copied(db.old.rows) |->
                             IF k \in DOMAIN index THEN index[k] ELSE Copied(db.old.rows)[k]]
         ELSE /\ db' = InitFails("migrate data")
              /\ index' = index
  /\ UNCHANGED <<now, restarts, jobs, job, proc, blobs, dirs, mu, req, kept, owed, call>>

\* 4. DROP TABLE ai_image_cache_old, and NewAIImageCache returns the cache:
\* ai_cache.go 122-128, 56-64.
DropOld ==
  /\ db.pc = "drop"
  /\ \E ok \in Outcomes(db.old.exists) :
       IF ok
         THEN db' = [db EXCEPT !.pc = "open", !.old = NoTable]
         ELSE db' = InitFails("drop old table")
  /\ UNCHANGED <<now, restarts, jobs, job, proc, index, blobs, dirs, mu, req, kept, owed, call>>

\* The process dies; every statement executed so far is in the database file,
\* and db.cut is where NewAIImageCache was.
Crash ==
  /\ db.pc # "closed"
  /\ db.crashes < MaxCrashes
  /\ db' = [db EXCEPT !.pc = "closed", !.cut = db.pc, !.crashes = @ + 1]
  /\ UNCHANGED <<now, restarts, jobs, job, proc, index, blobs, dirs, mu, req, kept, owed, call>>

\* The cache is initialized on a database file, again after every crash or
\* failed initialization.
NextMig ==
  \/ OpenCache
  \/ CreateTable
  \/ CheckSchema
  \/ RenameOld
  \/ CreateNew
  \/ CopyRows
  \/ DropOld
  \/ Crash

SpecMig == InitMig /\ [][NextMig]_vars

\* ---------------------------------------------------------------- restarts, with initialization
\* The blob files of a database file's rows, all there.
BootBlobs(d) ==
  [f \in {d.index[k].output_filename : k \in DOMAIN d.index}
          \cup {d.legacy[h].output_filename : h \in DOMAIN d.legacy} |->
     GeminiImage(f[2], DefaultAIPrompt)]

\* The process is about to call srv.New on a data directory: no database file
\* yet, or one on the legacy or on the current schema, with its blob files.
InitBoot ==
  \E d \in Databases :
    /\ now = 0
    /\ restarts = 0
    /\ jobs = <<>>
    /\ job = [s \in Slots |-> NoJob]
    /\ proc = [s \in Slots |-> NoProc]
    /\ index = d.index
    /\ blobs = BootBlobs(d)
    /\ dirs = [id \in IDs |-> NoFiles]
    /\ mu = "free"
    /\ req = IdleReq
    /\ kept = {[fp |-> d.index[k].input_hash, prompt |-> d.index[k].prompt,
                filename |-> d.index[k].output_filename,
                mime_type |-> d.index[k].mime_type,
                data |-> BootBlobs(d)[d.index[k].output_filename],
                n |-> 0, fresh |-> TRUE] : k \in DOMAIN d.index}
    /\ owed = {}
    /\ call = NoCall
    /\ db = [pc |-> "closed", schema |-> d.schema, legacy |-> d.legacy,
             old |-> NoTable, err |-> "", crashes |-> 0, cut |-> "",
             found |-> IF d.schema = "legacy" THEN Table(d.legacy) ELSE NoTable]

\* srv.New has returned the server: server.go 67-88.
Serving == db.pc = "open"

\* The serving process stops; the next one will call srv.New on what it left.
Reboot ==
  /\ Serving
  /\ restarts < MaxRestarts
  /\ restarts' = restarts + 1
  /\ jobs' = <<>>
  /\ job' = [s \in Slots |-> NoJob]
  /\ proc' = [s \in Slots |-> NoProc]
  /\ mu' = "free"
  /\ req' = IdleReq
  /\ owed' = {}
  /\ db' = [db EXCEPT !.pc = "closed"]
  /\ UNCHANGED <<now, index, blobs, dirs, kept, call>>

\* Process lifetimes one after another: each initializes the cache statement
\* by statement and then serves AI jobs, one cache user at a time, until it
\* stops.
NextBoot ==
  \/ OpenCache
  \/ CreateTable
  \/ CheckSchema
  \/ RenameOld
  \/ CreateNew
  \/ CopyRows
  \/ DropOld
  \/ Crash
  \/ Serving /\ CacheIdle /\ HandleUpload(MaxPipelineJobs, AISubmissions)
  \/ Serving /\ AIStage
  \/ Serving /\ Tick
  \/ Reboot

SpecBoot == InitBoot /\ [][NextBoot]_vars

\* ---------------------------------------------------------------- float64
\* Binary floating point with a significand of Precision bits, round to nearest,
\* ties to even, as Go's float64 with 53. A number is sgn * m * 2^e with
\* 2^(Precision-1) <= m < 2^Precision, or zero; exponents are not limited.
RECURSIVE Pow2(_)
Pow2(n) == IF n = 0 THEN 1 ELSE 2 * Pow2(n - 1)

Zero == [sgn |-> 0, m |-> 0, e |-> 0]
Float(m, e) == [sgn |-> 1, m |-> m, e |-> e]
Neg(x) == [x EXCEPT !.sgn = 0 - x.sgn]

\* The number of low bits to drop from n > 0 to leave Precision bits.
RECURSIVE Excess(_)
Excess(n) == IF n < Pow2(Precision) THEN 0 ELSE 1 + Excess(n \div 2)

\* The float nearest to n * 2^e, n > 0 (ties to even).
RECURSIVE Round(_, _)
Round(n, e) ==
  IF n < Pow2(Precision - 1) THEN Round(2 * n, e - 1)
  ELSE IF n < Pow2(Precision) THEN Float(n, e)
  ELSE LET k == Excess(n)
           q == n \div Pow2(k)
           r == n % Pow2(k)
           half == Pow2(k - 1)
           up == r > half \/ (r = half /\ q % 2 = 1)
       IN IF up THEN Round(q + 1, e + k) ELSE Float(q, e + k)

\* x * y and x / y of positive floats.
Mul(x, y) == Round(x.m * y.m, x.e + y.e)
Div(x, y) ==
  LET n == (x.m * Pow2(Precision + 2)) \div y.m
      sticky == IF (x.m * Pow2(Precision + 2)) % y.m = 0 THEN 0 ELSE 1
  IN Round(2 * n + sticky, x.e - y.e - Precision - 3)

\* x < y and x <= y of floats that are positive or zero, and x <= 0.
Less(x, y) ==
  IF x.sgn = 0 THEN y.sgn = 1
  ELSE y.sgn = 1 /\ (x.e < y.e \/ (x.e = y.e /\ x.m < y.m))
Leq(x, y) == x = y \/ Less(x, y)
NotPositive(x) == x.sgn <= 0

\* ---------------------------------------------------------------- scaleToFit
\* Had the guard returned the source size.
SourceBox(srcW, srcH, maxW, maxH) == <<srcW, srcH>>

\* return maxW, maxH: server.go 460-462.
MaxBox(srcW, srcH, maxW, maxH) == <<maxW, maxH>>

\* scaleToFit: server.go 459-475.
scaleToFit(srcW, srcH, maxW, maxH) ==
  IF NotPositive(srcW) \/ NotPositive(srcH)
    THEN MaxBox(srcW, srcH, maxW, maxH)
    ELSE LET scaleW == Div(maxW, srcW)
             scaleH == Div(maxH, srcH)
             scale == IF Less(scaleH, scaleW) THEN scaleH ELSE scaleW
         IN <<Mul(srcW, scale), Mul(srcH, scale)>>

\* The positive arguments tried, and with them zero and the negative ones.
Positives ==
  {Float(m, e) : m \in Pow2(Precision - 1)..(Pow2(Precision) - 1), e \in 0..MaxExp}
Signed == Positives \cup {Zero} \cup {Neg(x) : x \in Positives}

\* scaleToFit is about to be called with a source size and a maximum box.
InitScale ==
  \E srcW \in Signed, srcH \in Signed, maxW \in Positives, maxH \in Positives :
    /\ now = 0
    /\ restarts = 0
    /\ jobs = <<>>
    /\ job = [s \in Slots |-> NoJob]
    /\ proc = [s \in Slots |-> NoProc]
    /\ index = <<>>
    /\ blobs = <<>>
    /\ dirs = [id \in IDs |-> NoFiles]
    /\ mu = "free"
    /\ req = IdleReq
    /\ kept = {}
    /\ owed = {}
    /\ db = OpenDb
    /\ call = [fn |-> "scaleToFit", args |-> <<srcW, srcH, maxW, maxH>>, ret |-> <<>>]

\* The call returns.
ScaleToFit ==
  /\ call.fn = "scaleToFit"
  /\ call.ret = <<>>
  /\ call' = [call EXCEPT !.ret = scaleToFit(call.args[1], call.args[2],
                                             call.args[3], call.args[4])]
  /\ UNCHANGED <<now, restarts, jobs, job, proc, index, blobs, dirs, mu, req, kept, owed, db>>

NextScale == ScaleToFit

SpecScale == InitScale /\ [][NextScale]_vars

\* ---------------------------------------------------------------- filterWhitePaths
\* A document is the sequence of its elements. An element is its opening text
\* ("<path", "<rect"), its attributes in order and its closing text ("/>", ">");
\* an attribute is a name, its quote character and its value; a value is a
\* sequence of items, each a text followed by a run of hexadecimal digits, so
\* that stroke:#f1f1f1 is the text "stroke:#" followed by six digits.
Item(text, hex) == [text |-> text, hex |-> hex]
Attr(name, quote, value) == [name |-> name, quote |-> quote, value |-> value]
Element(open, attrs, close) == [open |-> open, attrs |-> attrs, close |-> close]

\* strconv.ParseInt(.., 16, 64) of one digit and of two: server.go 510-512.
HexVal(d) ==
  CASE d = "0" -> 0 [] d = "1" -> 1 [] d = "2" -> 2 [] d = "3" -> 3
    [] d = "4" -> 4 [] d = "5" -> 5 [] d = "6" -> 6 [] d = "7" -> 7
    [] d = "8" -> 8 [] d = "9" -> 9
    [] d \in {"a", "A"} -> 10 [] d \in {"b", "B"} -> 11 [] d \in {"c", "C"} -> 12
    [] d \in {"d", "D"} -> 13 [] d \in {"e", "E"} -> 14 [] d \in {"f", "F"} -> 15
ParseHex(pair) == 16 * HexVal(pair[1]) + HexVal(pair[2])

\* threshold := int64(240): server.go 515.
threshold == 240

\* Had the comparison included the threshold.
NearWhiteFrom(r, g, b) == r >= threshold /\ g >= threshold /\ b >= threshold

\* r > threshold && g > threshold && b > threshold: server.go 516.
NearWhite(r, g, b) == r > threshold /\ g > threshold /\ b > threshold

\* isNearWhite: server.go 505-517.
isNearWhite(hex) ==
  IF Len(hex) # 6 THEN FALSE
  ELSE NearWhite(ParseHex(SubSeq(hex, 1, 2)), ParseHex(SubSeq(hex, 3, 4)),
                 ParseHex(SubSeq(hex, 5, 6)))

\* stroke:#([0-9a-fA-F]{6}) matches at an item: its text is stroke:# and at
\* least six digits follow.
StrokeItem(it) == it.text = "stroke:#" /\ Len(it.hex) >= 6

\* pathRegex (server.go 485) matches an element: <path, then without a > a
\* style=" whose value, up to its closing quote, has stroke:# and six digits,
\* then without a > the closing />.
PathMatch(e) ==
  /\ e.open = "<path"
  /\ e.close = "/>"
  /\ \E i \in 1..Len(e.attrs) :
       /\ e.attrs[i].name = "style"
       /\ e.attrs[i].quote = "\""
       /\ \E k \in 1..Len(e.attrs[i].value) : StrokeItem(e.attrs[i].value[k])

\* The items of an element in the order of its text.
RECURSIVE ItemsOf(_)
ItemsOf(attrs) ==
  IF attrs = <<>> THEN <<>> ELSE Head(attrs).value \o ItemsOf(Tail(attrs))

\* colorMatch[1]: the six digits of the first stroke:# of the matched text
\* (server.go 489, 494).
HexColor(e) ==
  LET items == ItemsOf(e.attrs)
      first == CHOOSE k \in 1..Len(items) :
                 StrokeItem(items[k]) /\ \A x \in 1..(k - 1) : ~StrokeItem(items[x])
  IN SubSeq(items[first].hex, 1, 6)

\* Had the filter dropped what it cannot parse.
RemovesUnparsed(e) == PathMatch(e) => isNearWhite(HexColor(e))

\* Whether ReplaceAllFunc replaces the element by nothing: server.go 487-499.
Removes(e) == PathMatch(e) /\ isNearWhite(HexColor(e))

\* The document filterWhitePaths writes back: server.go 487-501.
RECURSIVE filterWhitePaths(_)
filterWhitePaths(doc) ==
  IF doc = <<>> THEN <<>>
  ELSE IF Removes(Head(doc)) THEN filterWhitePaths(Tail(doc))
  ELSE <<Head(doc)>> \o filterWhitePaths(Tail(doc))

\* The colors tried: every mix of 240 and 241, and some others.
Digits(a, b, c) == <<a[1], a[2], b[1], b[2], c[1], c[2]>>
Colors ==
  {Digits(r, g, b) : r \in {<<"f", "0">>, <<"f", "1">>}, g \in {<<"f", "0">>, <<"f", "1">>},
                     b \in {<<"f", "0">>, <<"f", "1">>}}
    \cup {Digits(<<"0", "0">>, <<"0", "0">>, <<"0", "0">>),
          Digits(<<"F", "F">>, <<"f", "f">>, <<"F", "1">>),
          Digits(<<"e", "f">>, <<"f", "f">>, <<"f", "f">>)}

\* A path as the tracer writes it: <path style="stroke:#rrggbb; fill:none;" d="..."/>.
TracedPath(hex) ==
  Element("<path", <<Attr("style", "\"", <<Item("stroke:#", hex), Item("; fill:none;", <<>>)>>),
                     Attr("d", "\"", <<Item("M0 0L1 1", <<>>)>>)>>, "/>")

White == Digits(<<"f", "f">>, <<"f", "f">>, <<"f", "f">>)
Black == Digits(<<"0", "0">>, <<"0", "0">>, <<"0", "0">>)

\* Elements the pattern does not match: a path without style, with a
\* three-digit color, with the stroke as an attribute, with a single-quoted
\* style, with a separate end tag, with a white fill only; and a white rectangle.
Unparsed ==
  {Element("<path", <<Attr("d", "\"", <<Item("M0 0L1 1", <<>>)>>)>>, "/>"),
   Element("<path", <<Attr("style", "\"", <<Item("stroke:#", <<"f", "f", "f">>)>>)>>, "/>"),
   Element("<path", <<Attr("stroke", "\"", <<Item("#", White)>>)>>, "/>"),
   Element("<path", <<Attr("style", "'", <<Item("stroke:#", White)>>)>>, "/>"),
   Element("<path", <<Attr("style", "\"", <<Item("stroke:#", White)>>)>>, ">"),
   Element("<path", <<Attr("style", "\"", <<Item("fill:#", White)>>)>>, "/>"),
   Element("<rect", <<Attr("style", "\"", <<Item("stroke:#", White)>>)>>, "/>")}

\* Paths the pattern matches that name two colors.
TwoColors ==
  {Element("<path", <<Attr("style", "\"", <<Item("stroke:#", Black), Item(";", <<>>), Item("stroke:#", White)>>)>>, "/>"),
   Element("<path", <<Attr("id", "\"", <<Item("stroke:#", White)>>),
                      Attr("style", "\"", <<Item("stroke:#", Black)>>)>>, "/>")}

Elements == {TracedPath(hex) : hex \in Colors} \cup Unparsed \cup TwoColors

Documents == UNION {[1..n -> Elements] : n \in 0..MaxElements}

\* filterWhitePaths is about to be called on a document.
InitFilter ==
  \E doc \in Documents :
    /\ now = 0
    /\ restarts = 0
    /\ jobs = <<>>
    /\ job = [s \in Slots |-> NoJob]
    /\ proc = [s \in Slots |-> NoProc]
    /\ index = <<>>
    /\ blobs = <<>>
    /\ dirs = [id \in IDs |-> NoFiles]
    /\ mu = "free"
    /\ req = IdleReq
    /\ kept = {}
    /\ owed = {}
    /\ db = OpenDb
    /\ call = [fn |-> "filterWhitePaths", args |-> <<doc>>, ret |-> <<>>]

\* The call returns, the filtered document written.
FilterWhitePaths ==
  /\ call.fn = "filterWhitePaths"
  /\ call.ret = <<>>
  /\ call' = [call EXCEPT !.ret = <<filterWhitePaths(call.args[1])>>]
  /\ UNCHANGED <<now, restarts, jobs, job, proc, index, blobs, dirs, mu, req, kept, owed, db>>

NextFilter == FilterWhitePaths

SpecFilter == InitFilter /\ [][NextFilter]_vars

\* ---------------------------------------------------------------- the scale stage
\* The scale stage on decimal numbers: a positive number is the fraction n / d
\* in lowest terms. float64 rounds each of the stage's operations in its
\* sixteenth digit, twelve digits below the four decimals the stage passes on.
RECURSIVE GCD(_, _)
GCD(a, b) == IF b = 0 THEN a ELSE GCD(b, a % b)
Rat(n, d) == [n |-> n \div GCD(n, d), d |-> d \div GCD(n, d)]
RMul(x, y) == Rat(x.n * y.n, x.d * y.d)
RDiv(x, y) == Rat(x.n * y.d, x.d * y.n)
RLess(x, y) == x.n * y.d < y.n * x.d

\* scaleToFit for positive arguments: server.go 465-474.
scaled(svgWidth, svgHeight, MaxWidth, MaxHeight) ==
  LET scaleW == RDiv(MaxWidth, svgWidth)
      scaleH == RDiv(MaxHeight, svgHeight)
      scale == IF RLess(scaleH, scaleW) THEN scaleH ELSE scaleW
  IN <<RMul(svgWidth, scale), RMul(svgHeight, scale)>>

\* dpi := svgWidth / scaledWidth * 25.4: server.go 316.
dpi(svgWidth, scaledWidth) == RMul(RDiv(svgWidth, scaledWidth), Rat(254, 10))

\* fmt.Sprintf("%.4f", x) (server.go 319), as the number of ten-thousandths printed: the
\* nearest one, and where x is half-way between two, either, the float64 that
\* stands for x lying on one side or the other.
Sprintf4(x) ==
  LET q == x.n \div x.d
      r == x.n % x.d
      t == (r * 10000) \div x.d
      rest == (r * 10000) % x.d
  IN IF 2 * rest < x.d THEN {q * 10000 + t}
     ELSE IF 2 * rest > x.d THEN {q * 10000 + t + 1}
     ELSE {q * 10000 + t, q * 10000 + t + 1}

\* Declared document sizes in pixels and requested boxes in millimetres.
Pixels == {3, 7, 100, 832}
Boxes == {30, 50, 70, 200}

\* The scale stage is about to run on a document's declared size and the
\* job's MaxWidth and MaxHeight.
InitDpi ==
  \E svgWidth \in Pixels, svgHeight \in Pixels, MaxWidth \in Boxes, MaxHeight \in Boxes :
    /\ now = 0
    /\ restarts = 0
    /\ jobs = <<>>
    /\ job = [s \in Slots |-> NoJob]
    /\ proc = [s \in Slots |-> NoProc]
    /\ index = <<>>
    /\ blobs = <<>>
    /\ dirs = [id \in IDs |-> NoFiles]
    /\ mu = "free"
    /\ req = IdleReq
    /\ kept = {}
    /\ owed = {}
    /\ db = OpenDb
    /\ call = [fn |-> "dpiArg", args |-> <<svgWidth, svgHeight, MaxWidth, MaxHeight>>,
               ret |-> <<>>]

\* The scale stage up to dpiArg, the --dpi argument of svg2gcode: server.go
\* 309-319, 325.
ScaleStage ==
  /\ call.fn = "dpiArg"
  /\ call.ret = <<>>
  /\ \E dpiArg \in Sprintf4(dpi(Rat(call.args[1], 1),
                                scaled(Rat(call.args[1], 1), Rat(call.args[2], 1),
                                       Rat(call.args[3], 1), Rat(call.args[4], 1))[1])) :
       call' = [call EXCEPT !.ret = <<dpiArg>>]
  /\ UNCHANGED <<now, restarts, jobs, job, proc, index, blobs, dirs, mu, req, kept, owed, db>>

NextDpi == ScaleStage

SpecDpi == InitDpi /\ [][NextDpi]_vars

\* ---------------------------------------------------------------- properties
Live(s) == job[s] # NoJob

IsPrefix(a, b) == Len(a) <= Len(b) /\ SubSeq(b, 1, Len(a)) = a

Terminal == {"done", "error"}

\* C1: a job is created "processing"; its status changes only from
\* "processing" to "done" or to "error", and once "done" or "error" it never
\* changes again.
C1_StatusMonotonic ==
  [][\A s \in Slots :
       /\ (~Live(s) /\ job'[s] # NoJob) => job'[s].Status = "processing"
       /\ Live(s) =>
            /\ job'[s] # NoJob
            /\ job'[s].Status # job[s].Status =>
                 (job[s].Status = "processing" /\ job'[s].Status \in Terminal)]_vars

\* A job whose tracer failed: its status is "error" and its goroutine has ended.
C1_Witness ==
  \E s \in Slots : Live(s) /\ job[s].Status = "error" /\ proc[s].err = "exit status 1"
                   /\ proc[s].pc = "done"

\* The positions at which the request goroutine reads fields of the *Job.
ReadPcs == {"read status", "read rest"}

\* C2 (as claimed): whenever a request is about to read a job's fields, the
\* job's artifact path is non-empty exactly if its status is "done".
C2_PathIffDone ==
  req.pc \in ReadPcs =>
    (job[req.slot].GCodePath # Nil <=> job[req.slot].Status = "done")

\* C3 (as claimed): the credential given to a job never occurs in the job's
\* log, whatever callGeminiAPI returned.
C3_CredentialNeverLogged ==
  \A s \in Slots :
    (Live(s) /\ proc[s].apiKey # "") => ~Contains(job[s].Log, proc[s].apiKey)

\* C4 (as claimed): a request reads a job's fields, and the job's goroutine
\* changes them, only while holding Server.mu; and no request is about to read
\* a job's fields while that job's goroutine is still writing them.
C4_JobStateUnderLock ==
  [][/\ (req.pc \in ReadPcs /\ req' # req) => mu = "request"
     /\ \A s \in Slots : (Live(s) /\ job'[s] # job[s]) => mu = Itoa(s)
     /\ ~(req.pc \in ReadPcs /\ proc[req.slot].pc \notin {"none", "done"})]_vars

\* The stages a job enters, and the external calls that returned well, in order.
StageOrder(ai) ==
  (IF ai THEN <<"api", "api returned">> ELSE <<>>)
    \o <<"trace", "trace returned", "filter", "scale", "gen", "gen returned">>

\* C5: what a job has run is an initial part of: the service call and its
\* return (AI jobs only), the tracer and its successful return, the filter, the
\* scale stage, the generator and its return. So each runs at most once, none
\* starts before the one before it has completed, and the generator never runs
\* before the tracer returned successfully.
C5_StagesInOrder ==
  \A s \in Slots :
    Live(s) =>
      \/ IsPrefix(proc[s].calls, StageOrder(FALSE))
      \/ job[s].UseAI /\ IsPrefix(proc[s].calls, StageOrder(TRUE))

\* An AI job that called the service and ran every stage to "done".
C5_Witness ==
  \E s \in Slots :
    Live(s) /\ job[s].Status = "done" /\ proc[s].calls = StageOrder(TRUE)

MissLine == "Cache MISS - calling Gemini API...\n"
NoKeyLine == "Error: AI transformation enabled but no API key provided\n"

\* C6: an AI job without credential that met a cache miss is in status
\* "error" with the missing-credential line in its log, its goroutine has
\* ended, and it has called neither the service nor the tracer nor the generator.
C6_NoCredentialFails ==
  \A s \in Slots :
    (Live(s) /\ job[s].UseAI /\ proc[s].apiKey = "" /\ Contains(job[s].Log, MissLine)) =>
      /\ job[s].Status = "error"
      /\ proc[s].pc = "done"
      /\ Contains(job[s].Log, NoKeyLine)
      /\ proc[s].calls = <<>>

\* Such a job, after a Lookup that purged a stale row.
C6_Witness ==
  \E s \in Slots :
    /\ Live(s) /\ job[s].UseAI /\ proc[s].apiKey = ""
    /\ Contains(job[s].Log, MissLine) /\ job[s].Status = "error"
    /\ proc[s].sel # NoRow

\* C7: once Lookup has returned an entry, the job never calls the service,
\* never fails for a missing credential, has its cache-hit flag set and its AI
\* image reference equal to the cached filename, and the image it gives the
\* tracer is the cached blob's path.
C7_CacheHit ==
  \A s \in Slots :
    (Live(s) /\ proc[s].cached # Nil) =>
      /\ "api" \notin {proc[s].calls[i] : i \in 1..Len(proc[s].calls)}
      /\ ~Contains(job[s].Log, NoKeyLine)
      /\ job[s].AIImageCached
      /\ job[s].AIImageFilename = proc[s].sel.output_filename
      /\ proc[s].cached.Filename = proc[s].sel.output_filename
      /\ proc[s].inputPath = <<"ai_cache/">> \o proc[s].sel.output_filename
      /\ proc[s].traceArg \in {Nil, <<"ai_cache/">> \o proc[s].sel.output_filename}
      /\ proc[s].pc \notin {"start", "lookup", "stat", "api", "apiwait", "store", "insert", "fallback"}

\* A job without credential that got a hit and ran to "done" on the cached blob.
C7_Witness ==
  \E s \in Slots :
    /\ Live(s) /\ proc[s].cached # Nil /\ proc[s].apiKey = ""
    /\ proc[s].traceArg = <<"ai_cache/">> \o proc[s].sel.output_filename
    /\ job[s].Status = "done"

\* The tracer has returned with an error.
TraceFailed(s) ==
  /\ proc[s].calls # <<>>
  /\ proc[s].calls[Len(proc[s].calls)] = "trace"
  /\ proc[s].err = "exit status 1"

\* C8 (as claimed, read in the code's favour: Lookup reports no index error and
\* no blob file at all is deleted after the job's AI stage has started): a job
\* whose AI stage started when a result for its (fingerprint, prompt) was stored
\* and its blob file not deleted, also after a restart, calls no image-transform
\* service and, once past Lookup, has a cache hit.
C8_StoredResultIsReused ==
  \A s \in owed :
    ~Contains(job[s].Log, "Cache lookup error: ") =>
      /\ \A i \in 1..Len(proc[s].calls) : proc[s].calls[i] # "api"
      /\ proc[s].pc \notin {"lookup", "stat"} => job[s].AIImageCached

\* C9: when the tracer has failed, the job's status is "error", its log ends
\* with what the tracer left on stdout and stderr and the error line, its
\* artifact path is empty, and the job has returned with the tracer as its last
\* stage: filter, scale and generate are not run.
C9_TraceFailure ==
  \A s \in Slots :
    (Live(s) /\ TraceFailed(s)) =>
      /\ job[s].Status = "error"
      /\ proc[s].pc = "done"
      /\ job[s].GCodePath = Nil
      /\ LET tail == ToolLog(proc[s].stdout, proc[s].stderr)
                       \o <<"\nError: ", "exit status 1", "\n">>
         IN /\ Len(job[s].Log) >= Len(tail)
            /\ SubSeq(job[s].Log, Len(job[s].Log) - Len(tail) + 1, Len(job[s].Log)) = tail

\* A tracer that failed after writing to stdout and stderr.
C9_Witness ==
  \E s \in Slots :
    /\ Live(s) /\ TraceFailed(s) /\ proc[s].stdout # "" /\ proc[s].stderr # ""
    /\ job[s].Status = "error"

FilterWarning == "Warning: failed to filter white paths: "

\* C10 (as claimed): after a failed filter stage the job has not failed for
\* it, and the generator is started on the unfiltered document.
C10_FilterFailureKeepsDocument ==
  \A s \in Slots :
    (Live(s) /\ Contains(job[s].Log, FilterWarning)) =>
      /\ proc[s].pc \in {"scale", "genwait"} =>
           (job[s].Status = "processing" /\ dirs[job[s].ID].svg = "unfiltered")
      /\ job[s].Status = "error" => proc[s].err = "exit status 1"

\* Store has failed for the job: the warning is in its log.
StoreFailed(j) == Contains(j.Log, "Warning: failed to cache result: ")

\* C11: a step in which Store fails leaves the job "processing"; the step after
\* it either writes the service's image into the job's directory, makes that
\* file the working image and leaves the job "processing" on its way to the
\* tracer, or (the direct write failed) ends the job in "error" with the
\* save-error line; and the tracer of such a job is launched on that file.
C11_StoreFailureFallsBack ==
  [][\A s \in Slots :
       LET p == proc[s]
           q == proc'[s]
           saved == FallbackPath(job[s].ID, p.mimeType)
       IN
       /\ (p.pc \in {"store", "insert"} /\ q.pc # p.pc /\ StoreFailed(job'[s])) =>
             (q.pc = "fallback" /\ job'[s].Status = "processing")
       /\ (p.pc = "fallback" /\ q.pc # "fallback") =>
             \/ /\ q.pc = "trace"
                /\ job'[s].Status = "processing"
                /\ dirs'[job[s].ID].ai = p.imageData
                /\ q.inputPath = saved
             \/ /\ q.pc = "done"
                /\ job'[s].Status = "error"
                /\ dirs' = dirs
                /\ SubSeq(job'[s].Log, Len(job'[s].Log) - 2, Len(job'[s].Log))
                     = <<"Error saving AI image: ", "no space left on device", "\n">>
       /\ (p.pc = "trace" /\ q.pc = "tracewait" /\ StoreFailed(job[s])) =>
             q.traceArg = saved]_vars

\* A job whose Store failed and whose tracer was launched on the file written
\* into its own directory.
C11_Witness ==
  \E s \in Slots :
    /\ Live(s)
    /\ StoreFailed(job[s])
    /\ proc[s].traceArg = FallbackPath(job[s].ID, proc[s].mimeType)
    /\ dirs[job[s].ID].ai = proc[s].imageData
    /\ job[s].Status = "processing"

\* Lookup has reported an index error to the job.
LookupError(j) == Contains(j.Log, "Cache lookup error: ")

\* The step in which the Lookup of Job object s returns.
LookupReturns(s) ==
  proc[s].pc \in {"lookup", "stat"} /\ proc'[s].pc \notin {"lookup", "stat", "none"}

\* C12 (as claimed): when the latest Store succeeded on a key without entry and
\* no Store and no blob deletion has happened since, a Lookup of the same
\* (fingerprint, prompt) returns the filename, full path, media type and prompt
\* that Store returned.
C12_AsClaimed ==
  [][\A s \in Slots :
       (/\ LookupReturns(s)
        /\ kept # {}
        /\ Latest.fresh
        /\ Latest.fp = proc[s].inputHash
        /\ Latest.prompt = proc[s].aiPrompt) =>
         proc'[s].cached = Returned(Latest)]_vars

\* C12 (amended): the same for a Lookup that reports no index error.
C12_StoreThenLookup ==
  [][\A s \in Slots :
       (/\ LookupReturns(s)
        /\ kept # {}
        /\ Latest.fresh
        /\ Latest.fp = proc[s].inputHash
        /\ Latest.prompt = proc[s].aiPrompt
        /\ ~LookupError(job'[s])) =>
         proc'[s].cached = Returned(Latest)]_vars

\* A Lookup has returned what a Store of this run returned for a JPEG on a
\* fresh key.
C12_Witness ==
  \E s \in Slots :
    /\ kept # {}
    /\ Latest.n >= 1
    /\ Latest.fresh
    /\ Latest.mime_type = "image/jpeg"
    /\ proc[s].cached = Returned(Latest)
    /\ job[s].AIImageCached

\* The step in which the Store of Job object s returns its result.
StoreSucceeds(s) == proc[s].pc = "insert" /\ proc'[s].pc = "trace"

\* C13 (as claimed): when a Store succeeds for a (fingerprint, prompt) an
\* earlier Store succeeded for, no blob file deleted in between, the key's row
\* references the blob this call wrote, and the blob file the earlier call
\* wrote is still there with the content that call wrote.
C13_SecondStoreKeepsFirstBlob ==
  [][\A s \in Slots :
       StoreSucceeds(s) =>
         \A r \in kept :
           (r.fp = proc[s].inputHash /\ r.prompt = proc[s].aiPrompt) =>
             LET cacheKey == MakeCacheKey(r.fp, r.prompt) IN
             /\ cacheKey \in DOMAIN index'
             /\ index'[cacheKey].output_filename = proc[s].filename
             /\ BlobExists(proc[s].filename)'
             /\ blobs'[proc[s].filename] = proc[s].imageData
             /\ BlobExists(r.filename)'
             /\ blobs'[r.filename] = r.data]_vars

\* The key Job object s looks up has a row whose blob file is gone.
StaleEntry(s) ==
  LET cacheKey == MakeCacheKey(proc[s].inputHash, proc[s].aiPrompt) IN
  /\ cacheKey \in DOMAIN index
  /\ ~BlobExists(index[cacheKey].output_filename)

\* C14 (as claimed): a Lookup of a key whose row references a deleted blob file
\* returns absent without error, and afterwards the index has no row for the
\* key and the rows of the other keys as before.
C14_AsClaimed ==
  [][\A s \in Slots :
       (LookupReturns(s) /\ StaleEntry(s)) =>
         /\ proc'[s].cached = Nil
         /\ ~LookupError(job'[s])
         /\ index' = Drop(index, MakeCacheKey(proc[s].inputHash, proc[s].aiPrompt))]_vars

\* C14 (amended): a Lookup of such a key that reports no index error returns
\* absent, the caller takes the miss branch, and afterwards the rows of the
\* other keys are as before while the key's row is either removed or, the
\* purge having failed, as before.
C14_StaleEntryPurged ==
  [][\A s \in Slots :
       (LookupReturns(s) /\ StaleEntry(s) /\ ~LookupError(job'[s])) =>
         /\ proc'[s].cached = Nil
         /\ ~job'[s].AIImageCached
         /\ Contains(job'[s].Log, "Cache MISS - calling Gemini API...\n")
         /\ index' \in {Drop(index, MakeCacheKey(proc[s].inputHash, proc[s].aiPrompt)),
                        index}]_vars

\* A job has missed on a key whose row was purged while the row of another key,
\* stored in this run, stayed.
C14_Witness ==
  \E s \in Slots :
    LET cacheKey == MakeCacheKey(proc[s].inputHash, proc[s].aiPrompt) IN
    /\ proc[s].pc = "api"
    /\ proc[s].sel # NoRow
    /\ ~LookupError(job[s])
    /\ cacheKey \notin DOMAIN index
    /\ index # <<>>

\* The step in which the Store of Job object s fails at its index write.
InsertFails(s) == proc[s].pc = "insert" /\ proc'[s].pc = "fallback"

BlobWritten(s) == proc[s].pc = "store" /\ proc'[s].pc = "insert"

\* C16 (as claimed): a Store writes its blob under a name no file of the cache
\* directory has, and the file a failing Store removes is the file of no other
\* Store.
C16_StoresUseDistinctFiles ==
  [][\A s \in Slots :
       /\ BlobWritten(s) => ~BlobExists(proc'[s].filename)
       /\ InsertFails(s) =>
            \A t \in Slots \ {s} : proc[t].filename # proc[s].filename]_vars

\* NewAIImageCache has returned a cache on the current schema alone that holds,
\* for the rows the legacy table had, as many rows, each with the fingerprint,
\* filename and media type of its legacy row, the default prompt, and
\* MakeCacheKey(fingerprint, DefaultAIPrompt) as key.
Migrated ==
  /\ db.schema = "current"
  /\ ~db.old.exists
  /\ db.legacy = <<>>
  /\ Cardinality(DOMAIN index) = Cardinality(DOMAIN db.found.rows)
  /\ \A h \in DOMAIN db.found.rows :
       LET cacheKey == MakeCacheKey(h, DefaultAIPrompt) IN
       /\ cacheKey \in DOMAIN index
       /\ index[cacheKey] = Row(h, DefaultAIPrompt, db.found.rows[h].output_filename,
                                db.found.rows[h].mime_type)

\* C17: an initialization that runs through on a legacy index of N rows
\* leaves exactly N rows on the current schema, each keeping fingerprint,
\* filename and media type, with the default prompt and the key
\* MakeCacheKey(fingerprint, DefaultAIPrompt), and no legacy table.
C17_MigrationKeepsRows ==
  (db.pc = "open" /\ db.found.exists /\ db.crashes = 0) => Migrated

\* A legacy index of three rows, PNG and JPEG, has been migrated.
C17_Witness ==
  /\ db.pc = "open"
  /\ db.found.exists
  /\ db.crashes = 0
  /\ Cardinality(DOMAIN index) = 3
  /\ \E k \in DOMAIN index : index[k].mime_type = "image/jpeg"
  /\ \E k \in DOMAIN index : index[k].mime_type = "image/png"

\* C18 (as claimed): when the process crashed during the initialization on a
\* legacy index that has rows, after one of the four migration statements, the
\* next initialization that returns a cache has completed the migration.
C18_InterruptedMigrationResumes ==
  (/\ db.pc = "open"
   /\ db.found.exists
   /\ db.found.rows # <<>>
   /\ db.cut \in {"new", "copy", "drop", "open"}) => Migrated

\* scaleToFit has returned.
Scaled == call.fn = "scaleToFit" /\ call.ret # <<>>

\* C19 (as claimed): for positive arguments scaleToFit returns (w, h) with
\* w <= maxW, h <= maxH, w / srcW equal to h / srcH, and w = maxW or h = maxH.
C19_FitsTightlyInProportion ==
  (Scaled /\ call.args[1].sgn = 1 /\ call.args[2].sgn = 1) =>
    LET srcW == call.args[1]
        srcH == call.args[2]
        maxW == call.args[3]
        maxH == call.args[4]
        w == call.ret[1]
        h == call.ret[2]
    IN /\ Leq(w, maxW)
       /\ Leq(h, maxH)
       /\ Div(w, srcW) = Div(h, srcH)
       /\ (w = maxW \/ h = maxH)

\* C20: when the source width or the source height is zero or negative,
\* scaleToFit returns exactly (maxW, maxH).
C20_DegenerateSourceGetsMaxBox ==
  (Scaled /\ (call.args[1].sgn <= 0 \/ call.args[2].sgn <= 0)) =>
    call.ret = <<call.args[3], call.args[4]>>

\* scaleToFit has returned the maximum box for a source of zero width and a
\* positive height different from the box's.
C20_Witness ==
  /\ Scaled
  /\ call.args[1] = Zero
  /\ call.args[2].sgn = 1
  /\ call.args[2] # call.args[4]
  /\ call.args[3] # call.args[4]
  /\ call.ret = <<call.args[3], call.args[4]>>

\* filterWhitePaths has returned.
Filtered == call.fn = "filterWhitePaths" /\ call.ret # <<>>

\* How often an element occurs in a document.
Count(doc, e) == Cardinality({i \in 1..Len(doc) : doc[i] = e})

\* The stroke colors an element's text names.
StrokesOf(e) == {k \in 1..Len(ItemsOf(e.attrs)) : StrokeItem(ItemsOf(e.attrs)[k])}

\* The red, green and blue channel of a path with one six-digit stroke color.
Channels(e) ==
  LET hex == ItemsOf(e.attrs)[CHOOSE k \in StrokesOf(e) : TRUE].hex
  IN {ParseHex(SubSeq(hex, 1, 2)), ParseHex(SubSeq(hex, 3, 4)), ParseHex(SubSeq(hex, 5, 6))}

NearWhiteStroked(e) ==
  /\ PathMatch(e)
  /\ ParseHex(SubSeq(HexColor(e), 1, 2)) >= 241
  /\ ParseHex(SubSeq(HexColor(e), 3, 4)) >= 241
  /\ ParseHex(SubSeq(HexColor(e), 5, 6)) >= 241

\* The positions of a document whose element is not a near-white stroked path,
\* and the k-th of them.
Staying(doc) == {i \in 1..Len(doc) : ~NearWhiteStroked(doc[i])}
NthStaying(doc, k) ==
  CHOOSE i \in Staying(doc) : Cardinality({x \in Staying(doc) : x <= i}) = k

DpiPassed == call.fn = "dpiArg" /\ call.ret # <<>>

\* C23 (as claimed): with the resolution passed to it, the generator's conversion
\* pixels / resolution * 25.4 puts the document's declared width and height
\* inside the requested maximum box. (pixels / (dpiArg / 10000) * 25.4 <= max
\* is pixels * 254000 <= max * dpiArg.)
C23_ResolutionFitsTheBox ==
  DpiPassed =>
    /\ call.args[1] * 254000 <= call.args[3] * call.ret[1]
    /\ call.args[2] * 254000 <= call.args[4] * call.ret[1]

\* The step in which a download request is answered.
DownloadAnswered == req.kind = "download" /\ req'.served = req.served + 1

\* C24: a download request is answered with the generated file only when it
\* found a registered job and that job's status is "done"; a request for an
\* unregistered identity, or for a job whose status is "processing" or
\* "error", is answered with not-found.
C24_DownloadOnlyWhenDone ==
  [][DownloadAnswered =>
       IF req.slot # 0 /\ job[req.slot].Status = "done"
         THEN req'.resp \in {"file", "404"}
         ELSE req'.resp = "404"]_vars

\* A download has been answered with the generated file of a job that is done.
C24_Witness ==
  /\ req.kind = "download"
  /\ req.resp = "file"
  /\ req.slot # 0
  /\ job[req.slot].Status = "done"
  /\ req.path = GCodePathOf(job[req.slot].ID)

\* The step in which a submission is accepted as Job object s.
Accepted(s) == job[s] = NoJob /\ job'[s] # NoJob

\* C25 (as claimed): an accepted submission gets an identity no other job of
\* the server has: registering it replaces no entry of the registry, and its
\* job directory is that of no other job.
C25_JobIdentitiesDistinct ==
  [][\A s \in Slots :
       Accepted(s) =>
         /\ job'[s].ID \notin DOMAIN jobs
         /\ \A t \in Slots \ {s} : job[t] # NoJob => JobDir(job[t].ID) # JobDir(job'[s].ID)]_vars

\* processJob has returned for Job object s.
ProcessJobReturned(s) == Live(s) /\ proc[s].pc = "done"

\* C26: when every external call made for a job returns, every submitted job
\* eventually has status "done" or "error", and processJob never returns while
\* the status is "processing".
C26_JobsReachTerminalStatus ==
  /\ \A s \in Slots : Live(s) ~> (Live(s) /\ job[s].Status \in Terminal)
  /\ [](\A s \in Slots : ProcessJobReturned(s) => job[s].Status \in Terminal)

\* processJob has returned with status "done" after the transform service, the
\* tracer and the generator each returned.
C26_Witness ==
  \E s \in Slots :
    /\ ProcessJobReturned(s)
    /\ job[s].Status = "done"
    /\ job[s].UseAI
    /\ Contains(proc[s].calls, "api returned")
    /\ Contains(proc[s].calls, "gen returned")

\* C27: once a job's status is "done" or "error", no step changes any field of
\* the job (status, log, artifact path, AI image reference, cache-hit flag) and
\* its goroutine does nothing more: its position, its locals and the list of
\* stages and external calls it has made stay as they are.
C27_NothingAfterTerminalStatus ==
  [][\A s \in Slots :
       (Live(s) /\ job[s].Status \in Terminal) =>
         (job'[s] = job[s] /\ proc'[s] = proc[s])]_vars

\* A request that read a job's terminal status has been answered: the server
\* went on working after the job had ended.
C27_Witness ==
  /\ req.pc = "idle" /\ req.served > 0 /\ req.status \in Terminal
  /\ req.slot # 0 /\ job[req.slot].Status \in Terminal
  /\ proc[req.slot].pc = "done"

\* The line that opens each stage's section of the log, in stage order:
\* server.go 196, 267, 295, 306, 322.
AIHeader == "=== Running AI Image Transformation ===\n"
TraceHeader == "=== Running autotrace ===\n"
FilterHeader == "=== Filtering white paths from SVG ===\n"
ScaleHeader == "SVG dimensions: "
GenHeader == "=== Running svg2gcode ===\n"

Headers(ai) ==
  (IF ai THEN <<AIHeader>> ELSE <<>>)
    \o <<TraceHeader, FilterHeader, ScaleHeader, GenHeader>>

IsHeader(line) == \E i \in 1..Len(Headers(TRUE)) : Headers(TRUE)[i] = line

\* The section openers of a log, in the order they stand in it.
Sections(log) == SelectSeq(log, IsHeader)

\* The stage a section belongs to, as the goroutine notes it when it runs it.
StageOf(header) ==
  CASE header = TraceHeader -> "trace"
    [] header = FilterHeader -> "filter"
    [] header = ScaleHeader -> "scale"
    [] header = GenHeader -> "gen"

\* C28: no step shortens or rewrites a job's log (the log before the step is a
\* prefix of the log after it); and in every state the section openers in the
\* log are an initial part of: AI (AI jobs only), trace, filter, scale,
\* generate, each section other than the AI one standing there only if the
\* goroutine has run that stage.
C28_LogGrowsInStageOrder ==
  /\ [][\A s \in Slots :
          (Live(s) /\ job'[s] # NoJob) => IsPrefix(job[s].Log, job'[s].Log)]_vars
  /\ [](\A s \in Slots :
          Live(s) =>
            /\ IsPrefix(Sections(job[s].Log), Headers(job[s].UseAI))
            /\ \A i \in 1..Len(Sections(job[s].Log)) :
                 Sections(job[s].Log)[i] # AIHeader =>
                   Contains(proc[s].calls, StageOf(Sections(job[s].Log)[i])))

\* An AI job that ended "done" with all five sections in its log.
C28_Witness ==
  \E s \in Slots :
    /\ Live(s) /\ job[s].Status = "done"
    /\ Sections(job[s].Log) = Headers(TRUE)
    /\ Len(job[s].Log) > Len(Headers(TRUE))

\* C29 (as claimed): when no blob file is deleted from outside, in every state,
\* those inside Store and on its error path included, every row of the index
\* references a blob file that exists.
C29_RowsReferenceExistingBlobs ==
  \A k \in DOMAIN index : BlobExists(index[k].output_filename)

\* The step in which the Lookup of Job object s runs its purge and the key's
\* row goes.
Purged(s) ==
  /\ proc[s].pc = "stat" /\ proc'[s].pc # "stat"
  /\ MakeCacheKey(proc[s].inputHash, proc[s].aiPrompt) \in DOMAIN index
  /\ MakeCacheKey(proc[s].inputHash, proc[s].aiPrompt) \notin DOMAIN index'

\* C30 (as claimed): the row a Lookup's purge removes is a row whose blob file
\* is missing, also when a Store for the same key runs concurrently.
C30_PurgeRemovesOnlyStaleRows ==
  [][\A s \in Slots :
       Purged(s) =>
         ~BlobExists(index[MakeCacheKey(proc[s].inputHash, proc[s].aiPrompt)].output_filename)]_vars

\* Job objects s and t have both called the image-transform service.
BothCalled(s, t) ==
  Contains(proc[s].calls, "api") /\ Contains(proc[t].calls, "api")

\* C31 (as claimed): of the jobs, each with its own id, running concurrently on
\* one input fingerprint and one prompt, no blob file being deleted, at most
\* one calls the image-transform service.
C31_ServiceCalledOncePerPair ==
  \A s, t \in Slots :
    (/\ s # t /\ Live(s) /\ Live(t)
     /\ job[s].ID # job[t].ID
     /\ proc[s].inputHash = proc[t].inputHash
     /\ proc[s].aiPrompt = proc[t].aiPrompt) => ~BothCalled(s, t)

\* NewAIImageCache is running, up to migrateOldSchema's check, on a database
\* file whose ai_image_cache table is on the current schema.
InitOnCurrent == db.schema = "current" /\ db.pc \in {"closed", "create", "check"}

\* The positions of migrateOldSchema's four migration statements.
MigrationPcs == {"rename", "new", "copy", "drop"}

\* C32: a step of the cache's initialization on an index that is on the
\* current schema reaches no migration statement and leaves the index's rows,
\* its schema and the blob files as they are; and in a process started after a
\* restart, a Lookup that reads the index for a (fingerprint, prompt) a kept
\* result was stored for returns what the Store of a kept result returned.
C32_InitOnCurrentSchemaIsIdle ==
  /\ [][InitOnCurrent =>
          /\ index' = index
          /\ blobs' = blobs
          /\ db'.schema = "current"
          /\ db'.old = db.old
          /\ db'.pc \notin MigrationPcs]_vars
  /\ [][\A s \in Slots :
          (/\ restarts > 0
           /\ LookupReturns(s)
           /\ Kept(proc[s].inputHash, proc[s].aiPrompt)
           /\ ~LookupError(job'[s])) =>
            \E r \in kept :
              /\ r.fp = proc[s].inputHash /\ r.prompt = proc[s].aiPrompt
              /\ proc'[s].cached = Returned(r)]_vars

\* After a restart and an initialization that found the current schema, a job
\* has a cache hit on the result a job of the process before stored.
C32_Witness ==
  \E s \in Slots :
    /\ restarts > 0 /\ Serving /\ db.found = NoTable
    /\ Live(s) /\ job[s].AIImageCached
    /\ \E r \in kept : r.n > 0 /\ proc[s].cached = Returned(r)

====
